---------------------------- MODULE Spec2Model ----------------------------
(***************************************************************************)
(* GPSdConnection (src/dimos_contrib/gps/gpsd_connection.py): the client   *)
(* of a gpsd daemon.  Public calls (connect, disconnect, start_streaming,  *)
(* stop_streaming) run on caller threads, _gps_loop runs on the threads    *)
(* start_streaming launches.  No lock guards socket, connected, _running   *)
(* or _thread, so every read and write of them is a step of its own.       *)
(***************************************************************************)
EXTENDS Integers, Sequences, FiniteSets, TLC

(***************************************************************************)
(* Bounds of the model.                                                    *)
(***************************************************************************)
\* Public calls the callers make in one behaviour: of the full specification, and of
\* the specification of the calls and the loop's control flow alone.
MaxCalls == 2
MaxLifeCalls == 3
\* Lines in a byte stream of the buffering specification, and reads it is split over.
MaxLines == 2
MaxChunks == 3
MaxModuleCalls == 3
MaxPublished == 2

\* Two caller threads: enough for every pair of racing public calls.
Callers == {"c1", "c2"}
\* A start_streaming call launches at most one thread.
Threads == 1..(IF MaxCalls > MaxLifeCalls THEN MaxCalls ELSE MaxLifeCalls)

(***************************************************************************)
(* Values of JSON fields and of the cache.                                 *)
(***************************************************************************)
Missing == [k |-> "missing"]
Num(n) == [k |-> "num", v |-> n]
Str == [k |-> "str"]
IsNum(x) == x.k = "num"
\* self._latest_location = None (line 66)
NoneVal == [k |-> "none"]
\* self._latest_velocity = {} , self._latest_quality = {} (lines 67-68)
EmptyDict == [k |-> "empty"]

\* No get_latest_* call has returned yet; no message is being decoded.
Unread == [k |-> "unread"]
NoData == [k |-> "nodata"]

Slots == {"loc", "vel", "qual"}
InitCache == [s \in Slots |-> IF s = "loc" THEN NoneVal ELSE EmptyDict]

(***************************************************************************)
(* The wire.  A byte is a token: "{" and "}" open and close a JSON object, *)
(* an upper-case letter stands for the text of the object's members, "sp"  *)
(* is a blank, "nl" the line feed, and "c3","a9" are the two bytes of the  *)
(* UTF-8 encoding of one non-ASCII character (inside a string member).     *)
(***************************************************************************)
BodyTokens == {"A", "B", "C", "S", "N", "V"}
Bytes == {"{", "}", "sp", "nl", "c3", "a9"} \cup BodyTokens

\* The members each body token stands for (json.loads's result, line 174).
Dict(class, mode, lat, lon, alt, speed, track, climb, sats, hdop, vdop, pdop) ==
  [class |-> class, mode |-> mode, lat |-> lat, lon |-> lon, alt |-> alt,
   speed |-> speed, track |-> track, climb |-> climb, sats |-> sats,
   hdop |-> hdop, vdop |-> vdop, pdop |-> pdop]

Body(tok) ==
  CASE tok = "A" -> Dict("TPV", Num(3), Num(1), Num(2), Num(3), Num(4), Missing,
                         Missing, <<>>, Missing, Missing, Missing)
    [] tok = "B" -> Dict("TPV", Num(2), Num(5), Num(6), Num(7), Missing, Missing,
                         Missing, <<>>, Missing, Missing, Missing)
    [] tok = "C" -> Dict("TPV", Num(3), Missing, Missing, Missing, Num(9), Missing,
                         Missing, <<>>, Missing, Missing, Missing)
    [] tok = "S" -> Dict("SKY", Missing, Missing, Missing, Missing, Missing, Missing,
                         Missing, <<TRUE, TRUE, FALSE>>, Num(1), Missing, Missing)
    [] tok = "N" -> Dict("TPV", Num(1), Num(8), Num(9), Missing, Num(4), Missing,
                         Missing, <<>>, Missing, Missing, Missing)
    [] OTHER     -> Dict("VERSION", Missing, Missing, Missing, Missing, Missing,
                         Missing, Missing, <<>>, Missing, Missing, Missing)

(***************************************************************************)
(* bytes.decode("utf-8") (line 138): strict, so a chunk that ends inside   *)
(* a multi-byte character, or starts with a continuation byte, raises.     *)
(***************************************************************************)
RECURSIVE Utf8Valid(_)
Utf8Valid(bs) ==
  IF bs = <<>> THEN TRUE
  ELSE IF Head(bs) = "c3"
       THEN Len(bs) >= 2 /\ bs[2] = "a9" /\ Utf8Valid(SubSeq(bs, 3, Len(bs)))
  ELSE IF Head(bs) = "a9" THEN FALSE
  ELSE Utf8Valid(Tail(bs))

RECURSIVE Utf8Decode(_)
Utf8Decode(bs) ==
  IF bs = <<>> THEN <<>>
  ELSE IF Head(bs) = "c3" THEN <<"e9">> \o Utf8Decode(SubSeq(bs, 3, Len(bs)))
  ELSE <<Head(bs)>> \o Utf8Decode(Tail(bs))

(***************************************************************************)
(* str.strip, str.split("\n", 1) and the test "\n" in buffer.              *)
(***************************************************************************)
RECURSIVE LStrip(_)
LStrip(s) == IF s /= <<>> /\ Head(s) = "sp" THEN LStrip(Tail(s)) ELSE s

RECURSIVE RStrip(_)
RStrip(s) ==
  IF s /= <<>> /\ s[Len(s)] = "sp" THEN RStrip(SubSeq(s, 1, Len(s) - 1)) ELSE s

Strip(s) == RStrip(LStrip(s))

Range(s) == {s[i] : i \in 1..Len(s)}

HasNewline(s) == \E i \in 1..Len(s) : s[i] = "nl"
FirstNewline(s) == CHOOSE i \in 1..Len(s) : s[i] = "nl" /\ \A j \in 1..(i - 1) : s[j] /= "nl"
\* line, buffer = buffer.split("\n", 1)
SplitLine(s) == SubSeq(s, 1, FirstNewline(s) - 1)
SplitRest(s) == SubSeq(s, FirstNewline(s) + 1, Len(s))

(***************************************************************************)
(* json.loads (line 174): blanks around the object are allowed, the text   *)
(* between the braces is one body token, optionally followed by non-ASCII  *)
(* characters and blanks that belong to members the client does not read.  *)
(***************************************************************************)
JsonValid(line) ==
  LET s == Strip(line) IN
    /\ Len(s) >= 3
    /\ s[1] = "{"
    /\ s[Len(s)] = "}"
    /\ s[2] \in BodyTokens
    /\ \A i \in 3..(Len(s) - 1) : s[i] \in {"e9", "sp"}

JsonLoads(line) == Body(Strip(line)[2])


(***************************************************************************)
(* The decoder.  _process_tpv and _process_sky write the cache and call    *)
(* on_next in turn; other threads may run in between, so the outcome of a  *)
(* line is the sequence of those effects, executed one step at a time.     *)
(*   [op |-> "set", slot, val]   with self._lock: self._latest_x = val     *)
(*   [op |-> "emit", slot, val]  subject.on_next(val)                      *)
(*   [op |-> "emit_cached", slot] subject.on_next(self._latest_location)   *)
(***************************************************************************)
LatLon(lat, lon, alt) == [k |-> "loc", lat |-> lat, lon |-> lon, alt |-> alt]

OrZero(x) == IF x = Missing THEN Num(0) ELSE x

\* Variant: the altitude is taken for a 2D fix too.
process_tpv_location_alt2d(data) ==
  LET mode == OrZero(data.mode)
      alt  == IF mode.v >= 2 THEN data.alt ELSE Missing
  IN IF data.lat /= Missing /\ data.lon /= Missing
     THEN << [op |-> "set", slot |-> "loc", val |-> LatLon(data.lat, data.lon, alt)],
             [op |-> "emit_cached", slot |-> "loc"] >>
     ELSE << >>

process_tpv_location(data) ==
  LET mode == OrZero(data.mode)
      alt  == IF mode.v >= 3 THEN data.alt ELSE Missing
  IN IF data.lat /= Missing /\ data.lon /= Missing
     THEN << [op |-> "set", slot |-> "loc", val |-> LatLon(data.lat, data.lon, alt)],
             [op |-> "emit_cached", slot |-> "loc"] >>
     ELSE << >>

\* Variant: a velocity report is built only when the speed is present.
process_tpv_velocity_speedonly(data) ==
  IF data.speed /= Missing
  THEN LET velocity_data == [k |-> "vel", speed |-> OrZero(data.speed),
                             track |-> OrZero(data.track), climb |-> OrZero(data.climb)]
       IN << [op |-> "set", slot |-> "vel", val |-> velocity_data],
             [op |-> "emit", slot |-> "vel", val |-> velocity_data] >>
  ELSE << >>

process_tpv_velocity(data) ==
  IF data.speed /= Missing \/ data.track /= Missing \/ data.climb /= Missing
  THEN LET velocity_data == [k |-> "vel", speed |-> OrZero(data.speed),
                             track |-> OrZero(data.track), climb |-> OrZero(data.climb)]
       IN << [op |-> "set", slot |-> "vel", val |-> velocity_data],
             [op |-> "emit", slot |-> "vel", val |-> velocity_data] >>
  ELSE << >>

\* Variant: a report without a fix (mode 1) passes the mode test.
process_tpv_lowmode(data) ==
  LET mode == OrZero(data.mode) IN
    IF ~IsNum(mode) THEN << >>
    ELSE IF mode.v < 1 THEN << >>
    ELSE process_tpv_location(data) \o process_tpv_velocity(data)

process_tpv(data) ==
  LET mode == OrZero(data.mode) IN
    IF ~IsNum(mode) THEN << >>          \* mode < 2 raises TypeError, caught at line 184
    ELSE IF mode.v < 2 THEN << >>
    ELSE process_tpv_location(data) \o process_tpv_velocity(data)

RECURSIVE CountUsed(_)
CountUsed(sats) ==
  IF sats = << >> THEN 0 ELSE (IF Head(sats) THEN 1 ELSE 0) + CountUsed(Tail(sats))

\* Variant: every listed satellite is counted as used.
process_sky_allused(data) ==
  LET quality_data == [k |-> "qual", satellites |-> Len(data.sats),
                       satellites_used |-> Len(data.sats),
                       hdop |-> data.hdop, vdop |-> data.vdop, pdop |-> data.pdop]
  IN << [op |-> "set", slot |-> "qual", val |-> quality_data],
        [op |-> "emit", slot |-> "qual", val |-> quality_data] >>

process_sky(data) ==
  LET quality_data == [k |-> "qual", satellites |-> Len(data.sats),
                       satellites_used |-> CountUsed(data.sats),
                       hdop |-> data.hdop, vdop |-> data.vdop, pdop |-> data.pdop]
  IN << [op |-> "set", slot |-> "qual", val |-> quality_data],
        [op |-> "emit", slot |-> "qual", val |-> quality_data] >>

\* Variant: an object of any other class is decoded as a TPV object.
process_class_any_tpv(d) ==
  IF d.class = "SKY" THEN process_sky(d) ELSE process_tpv(d)

\* msg_class = data.get("class", ""); the dispatch of lines 177-180
process_class(d) ==
  IF d.class = "TPV" THEN process_tpv(d)
  ELSE IF d.class = "SKY" THEN process_sky(d)
  ELSE << >>

process_gps_message(message) ==
  IF ~JsonValid(message) THEN << >>     \* json.JSONDecodeError, line 182
  ELSE process_class(JsonLoads(message))

(***************************************************************************)
(* State.                                                                  *)
(***************************************************************************)
VARIABLES
  socket,     \* the object self.socket refers to: "none", or the state of the socket:
              \* "fresh" (created), "conn" (TCP connected), "up" (watch command sent),
              \* "dead" (a read saw the peer close or fail), "closed" (close() called)
  connected,  \* self.connected
  running,    \* self._running
  thread,     \* self._thread: 0 (None) or the thread it refers to
  dropped,    \* an unclosed socket was replaced in self.socket (left to the collector)
  cache,      \* self._latest_location / _latest_velocity / _latest_quality
  lpc,        \* per loop thread: where it is in _gps_loop ("unborn" before start())
  buf,        \* per loop thread: the local variable buffer
  pend,       \* per loop thread: effects of the line being processed, not yet executed
  cpc,        \* per caller: where it is in its public call
  cop,        \* per caller: the public call it is in
  budget,     \* public calls the callers still make
  wire,       \* the chunks the daemon still delivers, one per successful recv
  orig,       \* history: the chunks the daemon set out to deliver
  startRes,   \* history: result of the last start_streaming that returned, "none" again
              \* once stop_streaming is called
  taint,      \* history, per caller: during its call a call was made that competes with
              \* it (stop_streaming during start_streaming; start_streaming or connect
              \* during stop_streaming)
  stopClean,  \* history: stop_streaming returned, no connect or start_streaming since
  apiUsed,    \* history: connect or disconnect was called directly
  stopped,    \* history, per loop thread: stop_streaming was called while it was running
  conns,      \* history: TCP connections established: "zero", "one", "many"
  reconn,     \* history: a loop thread entered the reconnect sequence
  raised,     \* history: a subscriber's callback raised
  lastDecoded,\* history, per slot: the report of the slot's type decoded last
  cacheHist,  \* history, per slot: the values the slot has taken
  delivered,  \* history, per slot: the values passed to on_next
  held,       \* per slot: the object the slot refers to was passed to on_next, so the
              \* subscribers hold a reference to it
  got,        \* the value the last get_latest_* call returned
  msgdata,    \* the object json.loads returned (data, line 174) for the message in
              \* the decoding specification
  observers,  \* per slot: the callbacks subscribed to the slot's Subject (their number)
  connection, \* GPSModule.connection: "none" (None) or "cur", the client described by
              \* the variables above
  orphans,    \* read loops of clients that GPSModule.start has replaced in
              \* self.connection while they were streaming (their number)
  mpc         \* where the caller of GPSModule.start is in that call

client == <<socket, connected, running, thread, dropped>>
loopv  == <<lpc, buf, pend>>
callv  == <<cpc, cop, budget>>
histv  == <<startRes, taint, stopClean, apiUsed, stopped>>
datah  == <<raised, lastDecoded, cacheHist, delivered, held, got, msgdata>>
modv   == <<observers, connection, orphans, mpc>>
vars   == <<socket, connected, running, thread, dropped, cache, lpc, buf, pend, cpc, cop,
           budget, wire, orig, startRes, taint, stopClean, apiUsed, stopped, conns, reconn,
           raised, lastDecoded, cacheHist, delivered, held, got, msgdata, observers,
           connection, orphans, mpc>>

\* A callback is subscribed to each of the client's three streams (lines 246-268).
Subscribed == observers = [s \in Slots |-> 1]
\* The client is used directly, not through a GPSModule.
NoModule == connection = "none" /\ orphans = 0 /\ mpc = "idle"

OpenSock == {"fresh", "conn", "up", "dead"}
Alive(t) == lpc[t] \notin {"unborn", "done"}
AliveThreads == {t \in Threads : Alive(t)}
\* self._thread and self._thread.is_alive()
ThreadAlive == IF thread = 0 THEN FALSE ELSE Alive(thread)
\* Places where a loop thread can stay longer than stop_streaming's join(timeout=2.0):
\* recv and socket.connect (timeout 5.0), sendall, sleep(5.0), a subscriber's callback.
OutlastsJoin(t) ==
  lpc[t] \in {"recv", "k_conn", "k_send", "long_sleep", "apply", "in_callback"}

MoreConns == IF conns = "zero" THEN "one" ELSE "many"

(***************************************************************************)
(* connect (lines 70-89) and disconnect (lines 91-100), as run by a caller *)
(* or by a loop thread: the effect of each statement on the client.        *)
(***************************************************************************)
\* self.socket = socket.socket(...)
connect_socket ==
  /\ socket' = "fresh"
  /\ dropped' = (dropped \/ socket \in OpenSock)
  /\ UNCHANGED <<connected, running, thread, conns>>

\* self.socket.settimeout(...); self.socket.connect(...) succeed
connect_tcp_ok ==
  /\ socket = "fresh"
  /\ socket' = "conn"
  /\ conns' = MoreConns
  /\ UNCHANGED <<connected, running, thread, dropped>>

\* Variant: the except clause does not reset self.connected.
connect_tcp_fail_keep ==
  UNCHANGED <<socket, connected, running, thread, dropped, conns>>

\* they raise (daemon unreachable; self.socket is None, closed or already connected):
\* except: self.connected = False; return False
connect_tcp_fail ==
  /\ connected' = FALSE
  /\ UNCHANGED <<socket, running, thread, dropped, conns>>

\* self.socket.sendall(watch_cmd); self.connected = True; return True
connect_send_ok ==
  /\ socket \in {"conn", "up"}
  /\ socket' = "up"
  /\ connected' = TRUE
  /\ UNCHANGED <<running, thread, dropped, conns>>

\* sendall raises: except: self.connected = False; return False
connect_send_fail ==
  /\ connected' = FALSE
  /\ socket' = (IF socket \in {"conn", "up"} THEN "dead" ELSE socket)
  /\ UNCHANGED <<running, thread, dropped, conns>>

\* self.connected = False
disconnect_flag ==
  /\ connected' = FALSE
  /\ UNCHANGED <<socket, running, thread, dropped, conns>>

\* if self.socket: self.socket.close()
disconnect_close ==
  /\ socket /= "none"
  /\ socket' = "closed"
  /\ UNCHANGED <<connected, running, thread, dropped, conns>>

\* self.socket = None
disconnect_none ==
  /\ socket' = "none"
  /\ dropped' = (dropped \/ socket \in OpenSock)
  /\ UNCHANGED <<connected, running, thread, conns>>

(***************************************************************************)
(* Public calls.  A caller is "idle" between calls.                        *)
(***************************************************************************)
\* The call of caller c returns val ("ok": True or None, "fail": False).
CallReturn(c, val) ==
  /\ cpc' = [cpc EXCEPT ![c] = "idle"]
  /\ cop' = [cop EXCEPT ![c] = "none"]
  /\ startRes' = (IF cop[c] = "start" /\ ~taint[c] THEN val ELSE startRes)
  /\ stopClean' = (IF cop[c] = "stop" THEN ~taint[c] ELSE stopClean)
  /\ UNCHANGED <<budget, taint, apiUsed, stopped>>

Goto(c, pc) ==
  /\ cpc' = [cpc EXCEPT ![c] = pc]
  /\ UNCHANGED <<cop, budget, startRes, taint, stopClean, apiUsed, stopped>>

\* Callers are interchangeable while idle: when both are, "c1" makes the next call.
CanCall(c) ==
  /\ cpc[c] = "idle"
  /\ budget > 0
  /\ c = "c2" => cpc["c1"] /= "idle"

\* start_streaming is called
start_streaming_call(c) ==
  /\ CanCall(c)
  /\ cpc' = [cpc EXCEPT ![c] = "s_chk"]
  /\ cop' = [cop EXCEPT ![c] = "start"]
  /\ budget' = budget - 1
  /\ taint' = [d \in Callers |-> IF d = c THEN FALSE ELSE taint[d] \/ cop[d] = "stop"]
  /\ stopClean' = FALSE
  /\ UNCHANGED <<client, conns, cache, loopv, wire, orig, modv, startRes, apiUsed, stopped,
                 reconn, datah>>

\* if self._running: return True
start_streaming_already(c) ==
  /\ cpc[c] = "s_chk" /\ running
  /\ CallReturn(c, "ok")
  /\ UNCHANGED <<client, conns, cache, loopv, wire, orig, modv, reconn, datah>>

\* Variant: the self._running test of line 104 is not made.
start_streaming_unchecked(c) ==
  /\ cpc[c] = "s_chk"
  /\ Goto(c, "s_conn")
  /\ UNCHANGED <<client, conns, cache, loopv, wire, orig, modv, reconn, datah>>

\* if self._running: it is false, the call goes on to line 108
start_streaming_not_running(c) ==
  /\ cpc[c] = "s_chk" /\ ~running
  /\ Goto(c, "s_conn")
  /\ UNCHANGED <<client, conns, cache, loopv, wire, orig, modv, reconn, datah>>

\* if not self.connected and not self.connect(): self.connected is true
start_streaming_is_connected(c) ==
  /\ cpc[c] = "s_conn" /\ connected
  /\ Goto(c, "s_run")
  /\ UNCHANGED <<client, conns, cache, loopv, wire, orig, modv, reconn, datah>>

\* self.connected is false: connect() is called
start_streaming_connect(c) ==
  /\ cpc[c] = "s_conn" /\ ~connected
  /\ Goto(c, "k_new")
  /\ UNCHANGED <<client, conns, cache, loopv, wire, orig, modv, reconn, datah>>

caller_connect_socket(c) ==
  /\ cpc[c] = "k_new"
  /\ connect_socket
  /\ Goto(c, "k_conn")
  /\ UNCHANGED <<cache, loopv, wire, orig, modv, reconn, datah>>

caller_connect_tcp_ok(c) ==
  /\ cpc[c] = "k_conn"
  /\ connect_tcp_ok
  /\ Goto(c, "k_send")
  /\ UNCHANGED <<cache, loopv, wire, orig, modv, reconn, datah>>

\* connect returns False; start_streaming then returns False (line 109)
caller_connect_tcp_fail(c) ==
  /\ cpc[c] = "k_conn"
  /\ connect_tcp_fail
  /\ CallReturn(c, "fail")
  /\ UNCHANGED <<cache, loopv, wire, orig, modv, reconn, datah>>

\* connect returns True; start_streaming goes on to line 111
caller_connect_send_ok(c) ==
  /\ cpc[c] = "k_send"
  /\ connect_send_ok
  /\ IF cop[c] = "start" THEN Goto(c, "s_run") ELSE CallReturn(c, "ok")
  /\ UNCHANGED <<cache, loopv, wire, orig, modv, reconn, datah>>

caller_connect_send_fail(c) ==
  /\ cpc[c] = "k_send"
  /\ connect_send_fail
  /\ CallReturn(c, "fail")
  /\ UNCHANGED <<cache, loopv, wire, orig, modv, reconn, datah>>

\* self._running = True
start_streaming_set_running(c) ==
  /\ cpc[c] = "s_run"
  /\ running' = TRUE
  /\ Goto(c, "s_thr")
  /\ UNCHANGED <<socket, connected, thread, dropped, conns, cache, loopv, wire, orig, modv,
                 reconn, datah>>

\* self._thread = threading.Thread(target=self._gps_loop); self._thread.start();
\* return True
start_streaming_thread(c) ==
  /\ cpc[c] = "s_thr"
  /\ LET t == CHOOSE u \in Threads : lpc[u] = "unborn" /\ \A w \in 1..(u - 1) : lpc[w] /= "unborn"
     IN /\ thread' = t
        /\ lpc' = [lpc EXCEPT ![t] = "top"]
  /\ CallReturn(c, "ok")
  /\ UNCHANGED <<socket, connected, running, dropped, conns, cache, buf, pend, wire, orig, modv,
                 reconn, datah>>

\* Variant: stop_streaming also forgets the thread (self._thread = None).
stop_streaming_call_forget(c) ==
  /\ CanCall(c)
  /\ running' = FALSE
  /\ thread' = 0
  /\ cpc' = [cpc EXCEPT ![c] = "p_join"]
  /\ cop' = [cop EXCEPT ![c] = "stop"]
  /\ budget' = budget - 1
  /\ startRes' = "none"
  /\ taint' = [d \in Callers |->
                IF d = c THEN \E e \in Callers \ {c} : cop[e] \in {"start", "connect"}
                ELSE taint[d] \/ cop[d] = "start"]
  /\ stopped' = [t \in Threads |-> stopped[t] \/ Alive(t)]
  /\ UNCHANGED <<socket, connected, dropped, conns, cache, loopv, wire, orig, modv,
                 stopClean, apiUsed, reconn, datah>>

\* stop_streaming is called: self._running = False
stop_streaming_call(c) ==
  /\ CanCall(c)
  /\ running' = FALSE
  /\ cpc' = [cpc EXCEPT ![c] = "p_join"]
  /\ cop' = [cop EXCEPT ![c] = "stop"]
  /\ budget' = budget - 1
  /\ startRes' = "none"
  /\ taint' = [d \in Callers |->
                IF d = c THEN \E e \in Callers \ {c} : cop[e] \in {"start", "connect"}
                ELSE taint[d] \/ cop[d] = "start"]
  /\ stopped' = [t \in Threads |-> stopped[t] \/ Alive(t)]
  /\ UNCHANGED <<socket, connected, thread, dropped, conns, cache, loopv, wire, orig, modv,
                 stopClean, apiUsed, reconn, datah>>

\* if self._thread and self._thread.is_alive(): join(timeout=2.0): there is no live
\* thread, or the thread ends within the timeout
stop_streaming_joined(c) ==
  /\ cpc[c] = "p_join"
  /\ ~ThreadAlive
  /\ Goto(c, "d_flag")
  /\ UNCHANGED <<client, conns, cache, loopv, wire, orig, modv, reconn, datah>>

\* the join gives up after 2.0 s
stop_streaming_join_timeout(c) ==
  /\ cpc[c] = "p_join"
  /\ ThreadAlive /\ OutlastsJoin(thread)
  /\ Goto(c, "d_flag")
  /\ UNCHANGED <<client, conns, cache, loopv, wire, orig, modv, reconn, datah>>

caller_disconnect_flag(c) ==
  /\ cpc[c] = "d_flag"
  /\ disconnect_flag
  /\ Goto(c, "d_close")
  /\ UNCHANGED <<cache, loopv, wire, orig, modv, reconn, datah>>

caller_disconnect_close(c) ==
  /\ cpc[c] = "d_close"
  /\ disconnect_close
  /\ Goto(c, "d_none")
  /\ UNCHANGED <<cache, loopv, wire, orig, modv, reconn, datah>>

\* if self.socket: it is None, disconnect returns
caller_disconnect_skip(c) ==
  /\ cpc[c] = "d_close" /\ socket = "none"
  /\ CallReturn(c, "ok")
  /\ UNCHANGED <<client, conns, cache, loopv, wire, orig, modv, reconn, datah>>

\* Variant: disconnect also drops the callbacks subscribed to the three Subjects.
caller_disconnect_none_unsubscribe(c) ==
  /\ cpc[c] = "d_none"
  /\ disconnect_none
  /\ CallReturn(c, "ok")
  /\ observers' = [s \in Slots |-> 0]
  /\ UNCHANGED <<cache, loopv, wire, orig, connection, orphans, mpc, reconn, datah>>

caller_disconnect_none(c) ==
  /\ cpc[c] = "d_none"
  /\ disconnect_none
  /\ CallReturn(c, "ok")
  /\ UNCHANGED <<cache, loopv, wire, orig, modv, reconn, datah>>

\* connect is called directly
connect_call(c) ==
  /\ CanCall(c)
  /\ cpc' = [cpc EXCEPT ![c] = "k_new"]
  /\ cop' = [cop EXCEPT ![c] = "connect"]
  /\ budget' = budget - 1
  /\ apiUsed' = TRUE
  /\ taint' = [d \in Callers |-> IF d = c THEN taint[d] ELSE taint[d] \/ cop[d] = "stop"]
  /\ stopClean' = FALSE
  /\ UNCHANGED <<client, conns, cache, loopv, wire, orig, modv, startRes, stopped,
                 reconn, datah>>

\* disconnect is called directly
disconnect_call(c) ==
  /\ CanCall(c)
  /\ cpc' = [cpc EXCEPT ![c] = "d_flag"]
  /\ cop' = [cop EXCEPT ![c] = "disconnect"]
  /\ budget' = budget - 1
  /\ apiUsed' = TRUE
  /\ UNCHANGED <<client, conns, cache, loopv, wire, orig, modv, startRes, taint, stopClean,
                 stopped, reconn, datah>>

(***************************************************************************)
(* _gps_loop (lines 125-165), one step per statement that reads or writes  *)
(* shared state or blocks.                                                 *)
(***************************************************************************)
LoopGoto(t, pc) == lpc' = [lpc EXCEPT ![t] = pc]

\* while self._running: true
gps_loop_top(t) ==
  /\ lpc[t] = "top" /\ running
  /\ LoopGoto(t, "chk")
  /\ UNCHANGED <<client, conns, cache, buf, pend, callv, wire, orig, modv, histv, reconn, datah>>

\* while self._running: false, the thread ends
gps_loop_exit(t) ==
  /\ lpc[t] = "top" /\ ~running
  /\ LoopGoto(t, "done")
  /\ UNCHANGED <<client, conns, cache, buf, pend, callv, wire, orig, modv, histv, reconn, datah>>

\* if not self.socket: logger.error(...)
gps_loop_no_socket(t) ==
  /\ lpc[t] = "chk" /\ socket = "none"
  /\ LoopGoto(t, "sleep_none")
  /\ UNCHANGED <<client, conns, cache, buf, pend, callv, wire, orig, modv, histv, reconn, datah>>

gps_loop_has_socket(t) ==
  /\ lpc[t] = "chk" /\ socket /= "none"
  /\ LoopGoto(t, "recv")
  /\ UNCHANGED <<client, conns, cache, buf, pend, callv, wire, orig, modv, histv, reconn, datah>>

\* time.sleep(1.0); continue (lines 133-134)
gps_loop_sleep_none(t) ==
  /\ lpc[t] = "sleep_none"
  /\ LoopGoto(t, "top")
  /\ UNCHANGED <<client, conns, cache, buf, pend, callv, wire, orig, modv, histv, reconn, datah>>

\* data = self.socket.recv(4096).decode("utf-8"): a chunk arrives and decodes
gps_loop_recv_data(t) ==
  /\ lpc[t] = "recv" /\ socket \in {"conn", "up"}
  /\ wire /= << >> /\ Utf8Valid(Head(wire))
  /\ buf' = [buf EXCEPT ![t] = buf[t] \o Utf8Decode(Head(wire))]
  /\ wire' = Tail(wire)
  /\ LoopGoto(t, "split")
  /\ UNCHANGED <<client, conns, cache, pend, callv, orig, modv, histv, reconn, datah>>

\* a chunk arrives and decode raises UnicodeDecodeError: except Exception (line 141)
gps_loop_recv_undecodable(t) ==
  /\ lpc[t] = "recv" /\ socket \in {"conn", "up"}
  /\ wire /= << >> /\ ~Utf8Valid(Head(wire))
  /\ wire' = Tail(wire)
  /\ LoopGoto(t, "err_chk")
  /\ UNCHANGED <<client, conns, cache, buf, pend, callv, orig, modv, histv, reconn, datah>>

\* Variant: a read timeout discards the partial line in the buffer.
gps_loop_recv_timeout_flush(t) ==
  /\ lpc[t] = "recv" /\ socket \in {"conn", "up"}
  /\ buf' = [buf EXCEPT ![t] = << >>]
  /\ LoopGoto(t, "top")
  /\ UNCHANGED <<client, conns, cache, pend, callv, wire, orig, modv, histv, reconn, datah>>

\* except socket.timeout: continue
gps_loop_recv_timeout(t) ==
  /\ lpc[t] = "recv" /\ socket \in {"conn", "up"}
  /\ LoopGoto(t, "top")
  /\ UNCHANGED <<client, conns, cache, buf, pend, callv, wire, orig, modv, histv, reconn, datah>>

\* recv raises: the link fails, or self.socket is None, closed or not connected
gps_loop_recv_error(t) ==
  /\ lpc[t] = "recv"
  /\ socket' = (IF socket \in {"conn", "up"} THEN "dead" ELSE socket)
  /\ LoopGoto(t, "err_chk")
  /\ UNCHANGED <<connected, running, thread, dropped, conns, cache, buf, pend, callv, wire,
                 orig, modv, histv, reconn, datah>>

\* Variant: a zero-length read also clears the cache.
gps_loop_recv_eof_clear(t) ==
  /\ lpc[t] = "recv" /\ socket \in {"conn", "up", "dead"}
  /\ socket' = "dead"
  /\ reconn' = TRUE
  /\ cache' = InitCache
  /\ LoopGoto(t, "eof_sleep")
  /\ UNCHANGED <<connected, running, thread, dropped, conns, buf, pend, callv, wire,
                 orig, modv, histv, datah>>

\* if not data: the peer closed (lines 149-151)
gps_loop_recv_eof(t) ==
  /\ lpc[t] = "recv" /\ socket \in {"conn", "up", "dead"}
  /\ socket' = "dead"
  /\ reconn' = TRUE
  /\ LoopGoto(t, "eof_sleep")
  /\ UNCHANGED <<connected, running, thread, dropped, conns, cache, buf, pend, callv, wire,
                 orig, modv, histv, datah>>

\* if self._running: (line 143) true
gps_loop_err_retry(t) ==
  /\ lpc[t] = "err_chk" /\ running
  /\ reconn' = TRUE
  /\ LoopGoto(t, "err_sleep")
  /\ UNCHANGED <<client, conns, cache, buf, pend, callv, wire, orig, modv, histv, datah>>

\* if self._running: false; continue
gps_loop_err_stopped(t) ==
  /\ lpc[t] = "err_chk" /\ ~running
  /\ LoopGoto(t, "top")
  /\ UNCHANGED <<client, conns, cache, buf, pend, callv, wire, orig, modv, histv, reconn, datah>>

\* time.sleep(0.5) (line 144), time.sleep(1.0) (line 151); then connect() is called
gps_loop_short_sleep(t) ==
  /\ lpc[t] \in {"err_sleep", "eof_sleep"}
  /\ LoopGoto(t, "k_new")
  /\ UNCHANGED <<client, conns, cache, buf, pend, callv, wire, orig, modv, histv, reconn, datah>>

loop_connect_socket(t) ==
  /\ lpc[t] = "k_new"
  /\ connect_socket
  /\ LoopGoto(t, "k_conn")
  /\ UNCHANGED <<cache, buf, pend, callv, wire, orig, modv, histv, reconn, datah>>

loop_connect_tcp_ok(t) ==
  /\ lpc[t] = "k_conn"
  /\ connect_tcp_ok
  /\ LoopGoto(t, "k_send")
  /\ UNCHANGED <<cache, buf, pend, callv, wire, orig, modv, histv, reconn, datah>>

\* if not self.connect(): time.sleep(5.0)
loop_connect_tcp_fail(t) ==
  /\ lpc[t] = "k_conn"
  /\ connect_tcp_fail
  /\ LoopGoto(t, "long_sleep")
  /\ UNCHANGED <<cache, buf, pend, callv, wire, orig, modv, histv, reconn, datah>>

\* Variant: the long delay is taken after a successful connect too.
loop_connect_send_ok_sleep(t) ==
  /\ lpc[t] = "k_send"
  /\ connect_send_ok
  /\ LoopGoto(t, "long_sleep")
  /\ UNCHANGED <<cache, buf, pend, callv, wire, orig, modv, histv, reconn, datah>>

\* connect returned True; continue
loop_connect_send_ok(t) ==
  /\ lpc[t] = "k_send"
  /\ connect_send_ok
  /\ LoopGoto(t, "top")
  /\ UNCHANGED <<cache, buf, pend, callv, wire, orig, modv, histv, reconn, datah>>

loop_connect_send_fail(t) ==
  /\ lpc[t] = "k_send"
  /\ connect_send_fail
  /\ LoopGoto(t, "long_sleep")
  /\ UNCHANGED <<cache, buf, pend, callv, wire, orig, modv, histv, reconn, datah>>

\* Variant: the loop gives up (break) after a failed reconnect.
gps_loop_long_sleep_break(t) ==
  /\ lpc[t] = "long_sleep"
  /\ LoopGoto(t, "done")
  /\ UNCHANGED <<client, conns, cache, buf, pend, callv, wire, orig, modv, histv, reconn, datah>>

\* time.sleep(5.0); continue
gps_loop_long_sleep(t) ==
  /\ lpc[t] = "long_sleep"
  /\ LoopGoto(t, "top")
  /\ UNCHANGED <<client, conns, cache, buf, pend, callv, wire, orig, modv, histv, reconn, datah>>

\* while "\n" in buffer: false
gps_loop_split_done(t) ==
  /\ lpc[t] = "split" /\ ~HasNewline(buf[t])
  /\ LoopGoto(t, "top")
  /\ UNCHANGED <<client, conns, cache, buf, pend, callv, wire, orig, modv, histv, reconn, datah>>

\* Variant: a line that is not JSON takes the rest of the buffer with it.
gps_loop_split_line_flush(t) ==
  /\ lpc[t] = "split" /\ HasNewline(buf[t])
  /\ LET line == SplitLine(buf[t])
         plan == IF Strip(line) /= << >> THEN process_gps_message(line) ELSE << >>
     IN /\ buf' = [buf EXCEPT ![t] = IF Strip(line) /= << >> /\ ~JsonValid(line)
                                     THEN << >> ELSE SplitRest(buf[t])]
        /\ pend' = [pend EXCEPT ![t] = plan]
        /\ lastDecoded' = [s \in Slots |->
                            IF \E i \in 1..Len(plan) : plan[i].op = "set" /\ plan[i].slot = s
                            THEN (CHOOSE e \in Range(plan) : e.op = "set" /\ e.slot = s).val
                            ELSE lastDecoded[s]]
        /\ LoopGoto(t, IF plan = << >> THEN "split" ELSE "apply")
  /\ UNCHANGED <<client, conns, cache, callv, wire, orig, modv, histv, reconn, raised, cacheHist,
                 delivered, held, got, msgdata>>

\* line, buffer = buffer.split("\n", 1); if line.strip(): self._process_gps_message(line)
gps_loop_split_line(t) ==
  /\ lpc[t] = "split" /\ HasNewline(buf[t])
  /\ LET line == SplitLine(buf[t])
         plan == IF Strip(line) /= << >> THEN process_gps_message(line) ELSE << >>
     IN /\ buf' = [buf EXCEPT ![t] = SplitRest(buf[t])]
        /\ pend' = [pend EXCEPT ![t] = plan]
        /\ lastDecoded' = [s \in Slots |->
                            IF \E i \in 1..Len(plan) : plan[i].op = "set" /\ plan[i].slot = s
                            THEN (CHOOSE e \in Range(plan) : e.op = "set" /\ e.slot = s).val
                            ELSE lastDecoded[s]]
        /\ LoopGoto(t, IF plan = << >> THEN "split" ELSE "apply")
  /\ UNCHANGED <<client, conns, cache, callv, wire, orig, modv, histv, reconn, raised, cacheHist,
                 delivered, held, got, msgdata>>

\* The next effect of the line: a cache write under the lock, or an on_next call.
\* Variant: a location is stored field by field, so that the slot holds the new lat
\* next to the previous lon.
ApplyEffect_torn(e) ==
  IF e.op = "set"
  THEN /\ cache' = [cache EXCEPT ![e.slot] =
                      IF e.slot = "loc" /\ cache["loc"] /= NoneVal
                      THEN [e.val EXCEPT !.lon = cache["loc"].lon]
                      ELSE e.val]
       /\ cacheHist' = [cacheHist EXCEPT ![e.slot] = Append(@, e.val)]
       /\ held' = [held EXCEPT ![e.slot] = FALSE]
       /\ UNCHANGED delivered
  ELSE IF observers[e.slot] = 0
  THEN UNCHANGED <<cache, cacheHist, delivered, held>>     \* on_next without observers
  ELSE /\ delivered' = [delivered EXCEPT ![e.slot] =
                          Append(@, IF e.op = "emit_cached" THEN cache[e.slot] ELSE e.val)]
       /\ held' = [held EXCEPT ![e.slot] = @ \/ e.op = "emit_cached" \/ cache[e.slot] = e.val]
       /\ UNCHANGED <<cache, cacheHist>>

\* A cache write stores a new object; on_next(self._latest_location) passes the cached
\* object itself, on_next(velocity_data) and on_next(quality_data) the object that was
\* stored just before (the cached one unless another thread has replaced it since).
ApplyEffect(e) ==
  IF e.op = "set"
  THEN /\ cache' = [cache EXCEPT ![e.slot] = e.val]
       /\ cacheHist' = [cacheHist EXCEPT ![e.slot] = Append(@, e.val)]
       /\ held' = [held EXCEPT ![e.slot] = FALSE]
       /\ UNCHANGED delivered
  ELSE IF observers[e.slot] = 0
  THEN UNCHANGED <<cache, cacheHist, delivered, held>>     \* on_next without observers
  ELSE /\ delivered' = [delivered EXCEPT ![e.slot] =
                          Append(@, IF e.op = "emit_cached" THEN cache[e.slot] ELSE e.val)]
       /\ held' = [held EXCEPT ![e.slot] = @ \/ e.op = "emit_cached" \/ cache[e.slot] = e.val]
       /\ UNCHANGED <<cache, cacheHist>>

gps_loop_apply(t) ==
  /\ lpc[t] = "apply"
  /\ ApplyEffect(Head(pend[t]))
  /\ pend' = [pend EXCEPT ![t] = Tail(pend[t])]
  /\ LoopGoto(t, IF Tail(pend[t]) = << >> THEN "split" ELSE "apply")
  /\ UNCHANGED <<client, conns, buf, callv, wire, orig, modv, histv, reconn, raised, lastDecoded,
                 got, msgdata>>

\* on_next is called and a subscriber's callback raises: the exception leaves
\* _process_tpv / _process_sky and is caught in _process_gps_message (line 184)
gps_loop_apply_raise(t) ==
  /\ lpc[t] = "apply" /\ Head(pend[t]).op /= "set" /\ observers[Head(pend[t]).slot] > 0
  /\ ApplyEffect(Head(pend[t]))
  /\ pend' = [pend EXCEPT ![t] = << >>]
  /\ raised' = TRUE
  /\ LoopGoto(t, "split")
  /\ UNCHANGED <<client, conns, buf, callv, wire, orig, modv, histv, reconn, lastDecoded, got,
                 msgdata>>

\* on_next is called and a subscriber's callback does not return: on_next runs the
\* callbacks on the loop thread, which stays inside the call.
gps_loop_apply_block(t) ==
  /\ lpc[t] = "apply" /\ Head(pend[t]).op /= "set" /\ observers[Head(pend[t]).slot] > 0
  /\ ApplyEffect(Head(pend[t]))
  /\ pend' = [pend EXCEPT ![t] = Tail(pend[t])]
  /\ LoopGoto(t, "in_callback")
  /\ UNCHANGED <<client, conns, buf, callv, wire, orig, modv, histv, reconn, raised, lastDecoded,
                 got, msgdata>>

\* _process_gps_message (lines 174-180) for a message whose JSON object is msgdata.
gps_loop_process_message(t) ==
  /\ lpc[t] = "msg"
  /\ LET plan == process_class(msgdata)
     IN /\ pend' = [pend EXCEPT ![t] = plan]
        /\ lastDecoded' = [s \in Slots |->
                            IF \E i \in 1..Len(plan) : plan[i].op = "set" /\ plan[i].slot = s
                            THEN (CHOOSE e \in Range(plan) : e.op = "set" /\ e.slot = s).val
                            ELSE lastDecoded[s]]
        /\ LoopGoto(t, IF plan = << >> THEN "split" ELSE "apply")
  /\ UNCHANGED <<client, conns, cache, buf, callv, wire, orig, modv, histv, reconn, raised,
                 cacheHist, delivered, held, got, msgdata>>

(***************************************************************************)
(* The cache as seen from other threads.                                   *)
(***************************************************************************)
\* get_latest_location / get_latest_velocity / get_latest_quality (lines 270-295):
\* with self._lock: return the slot's value (a copy of the dict for velocity, quality)
get_latest(s) ==
  /\ got' = cache[s]
  /\ UNCHANGED <<client, conns, cache, loopv, callv, wire, orig, modv, histv, reconn, raised,
                 lastDecoded, cacheHist, delivered, held, msgdata>>

\* A subscriber assigns to an item of the dict it was passed (v["speed"] = ...,
\* q["hdop"] = ...).
Mutate(v) == IF v.k = "vel" THEN [v EXCEPT !.speed = Num(99)] ELSE [v EXCEPT !.hdop = Num(99)]

\* The dict passed to on_next at lines 222 and 244 is the object the cache slot refers
\* to (lines 221, 243): the assignment is made to the cached object.
subscriber_mutates(s) ==
  /\ s \in {"vel", "qual"}
  /\ held[s] /\ cache[s] /= InitCache[s]
  /\ cache[s] /= Mutate(cache[s])
  /\ cache' = [cache EXCEPT ![s] = Mutate(cache[s])]
  /\ UNCHANGED <<client, conns, loopv, callv, wire, orig, modv, histv, reconn, datah>>

(***************************************************************************)
(* GPSModule (gps_module.py): start (lines 76-108) and stop (lines 110-119) *)
(* as called by one user of the module, one call after the other.          *)
(***************************************************************************)
\* self.connection = GPSdConnection(...) (line 82): a new client with new Subjects.  The
\* client it replaces is no longer referred to; if it is streaming, its loop threads go
\* on, and the module's callbacks stay subscribed to its Subjects.  (A replaced client
\* that was stopped is taken to have ended its loop.)
module_start_new(c) ==
  /\ mpc = "idle" /\ CanCall(c)
  /\ running \/ AliveThreads = {}
  /\ connection' = "cur"
  /\ orphans' = orphans + Cardinality(AliveThreads)
  /\ observers' = [s \in Slots |-> 0]
  /\ socket' = "none" /\ connected' = FALSE /\ running' = FALSE /\ thread' = 0
  /\ dropped' = FALSE /\ conns' = "zero" /\ reconn' = FALSE
  /\ cache' = InitCache
  /\ lpc' = [t \in Threads |-> "unborn"]
  /\ buf' = [t \in Threads |-> << >>]
  /\ pend' = [t \in Threads |-> << >>]
  /\ wire' = orig
  /\ startRes' = "none" /\ stopClean' = FALSE
  /\ stopped' = [t \in Threads |-> FALSE]
  /\ lastDecoded' = InitCache
  /\ cacheHist' = [s \in Slots |-> << >>]
  /\ held' = [s \in Slots |-> FALSE]
  /\ budget' = budget - 1
  /\ mpc' = "created"
  /\ UNCHANGED <<cpc, cop, orig, taint, apiUsed, raised, delivered, got, msgdata>>

\* if not self.connection.start_streaming(): the call is made (line 85)
module_start_streaming(c) ==
  /\ mpc = "created"
  /\ cpc' = [cpc EXCEPT ![c] = "s_chk"]
  /\ cop' = [cop EXCEPT ![c] = "start"]
  /\ mpc' = "starting"
  /\ UNCHANGED <<client, conns, cache, loopv, budget, wire, orig, histv, reconn, datah,
                 observers, connection, orphans>>

\* start_streaming returned False: return False (lines 86-87)
module_start_failed(c) ==
  /\ mpc = "starting" /\ cpc[c] = "idle" /\ startRes = "fail"
  /\ mpc' = "idle"
  /\ UNCHANGED <<client, conns, cache, loopv, callv, wire, orig, histv, reconn, datah,
                 observers, connection, orphans>>

\* start_streaming returned True: the module subscribes its three publish callbacks,
\* one stream after the other (lines 90-105), and returns True
module_subscribe(c) ==
  /\ \/ mpc = "starting" /\ cpc[c] = "idle" /\ startRes = "ok"
     \/ mpc \in {"sub_vel", "sub_qual"}
  /\ LET s == IF mpc = "starting" THEN "loc" ELSE IF mpc = "sub_vel" THEN "vel" ELSE "qual"
     IN observers' = [observers EXCEPT ![s] = @ + 1]
  /\ mpc' = (IF mpc = "starting" THEN "sub_vel" ELSE IF mpc = "sub_vel" THEN "sub_qual"
             ELSE "idle")
  /\ UNCHANGED <<client, conns, cache, loopv, callv, wire, orig, histv, reconn, datah,
                 connection, orphans>>

\* GPSModule.stop: if self.connection: self.connection.stop_streaming()
module_stop(c) ==
  /\ mpc = "idle" /\ connection = "cur"
  /\ stop_streaming_call(c)

\* GPSModule.stop while self.connection is None
module_stop_none(c) ==
  /\ mpc = "idle" /\ connection = "none"
  /\ CanCall(c)
  /\ budget' = budget - 1
  /\ UNCHANGED <<client, conns, cache, loopv, cpc, cop, wire, orig, histv, reconn, datah,
                 modv>>

\* The loop of a replaced client decodes a report of its own connection and calls
\* on_next: the module's callback, still subscribed, is run with it.
orphan_publish(s, r) ==
  /\ orphans > 0
  /\ Len(delivered[s]) < MaxPublished
  /\ delivered' = [delivered EXCEPT ![s] = Append(@, r)]
  /\ UNCHANGED <<client, conns, cache, loopv, callv, wire, orig, histv, reconn, raised,
                 lastDecoded, cacheHist, held, got, msgdata, modv>>

\* GPSModule._latest_location / _latest_velocity / _latest_quality (lines 51-53), set by
\* the publish callbacks (lines 127, 137, 151) and returned by get_location,
\* get_velocity and get_quality (lines 166, 175, 184)
ModuleLatest(s) ==
  IF delivered[s] = << >> THEN InitCache[s] ELSE delivered[s][Len(delivered[s])]

(***************************************************************************)
(* Specifications.                                                         *)
(***************************************************************************)
Line(tok) == <<"{", tok, "}", "nl">>

\* The state after __init__ (lines 49-68); no history yet.
InitClient ==
  /\ socket = "none" /\ connected = FALSE /\ running = FALSE /\ thread = 0
  /\ dropped = FALSE
  /\ cache = InitCache
  /\ lpc = [t \in Threads |-> "unborn"]
  /\ buf = [t \in Threads |-> << >>]
  /\ pend = [t \in Threads |-> << >>]
  /\ cpc = [c \in Callers |-> "idle"]
  /\ cop = [c \in Callers |-> "none"]
  /\ startRes = "none"
  /\ taint = [c \in Callers |-> FALSE]
  /\ stopClean = FALSE /\ apiUsed = FALSE
  /\ stopped = [t \in Threads |-> FALSE]
  /\ conns = "zero" /\ reconn = FALSE /\ raised = FALSE
  /\ lastDecoded = InitCache
  /\ cacheHist = [s \in Slots |-> << >>]
  /\ delivered = [s \in Slots |-> << >>]
  /\ held = [s \in Slots |-> FALSE]
  /\ got = Unread
  /\ msgdata = NoData

\* The daemon delivers a position report, then a line that is not JSON followed by a
\* position and velocity report, in two reads.
Init ==
  /\ InitClient
  /\ budget = MaxCalls
  /\ orig = << Line("B"), <<"V", "nl">> \o Line("A") >>
  /\ wire = orig
  /\ Subscribed /\ NoModule

CallerStep(c) ==
  \/ start_streaming_call(c) \/ start_streaming_already(c)
  \/ start_streaming_not_running(c) \/ start_streaming_is_connected(c)
  \/ start_streaming_connect(c) \/ start_streaming_set_running(c)
  \/ start_streaming_thread(c)
  \/ stop_streaming_call(c) \/ stop_streaming_joined(c) \/ stop_streaming_join_timeout(c)
  \/ connect_call(c) \/ disconnect_call(c)
  \/ caller_connect_socket(c) \/ caller_connect_tcp_ok(c) \/ caller_connect_tcp_fail(c)
  \/ caller_connect_send_ok(c) \/ caller_connect_send_fail(c)
  \/ caller_disconnect_flag(c) \/ caller_disconnect_close(c) \/ caller_disconnect_skip(c)
  \/ caller_disconnect_none(c)

LoopControl(t) ==
  \/ gps_loop_top(t) \/ gps_loop_exit(t) \/ gps_loop_no_socket(t) \/ gps_loop_has_socket(t)
  \/ gps_loop_sleep_none(t) \/ gps_loop_recv_timeout(t) \/ gps_loop_recv_error(t)
  \/ gps_loop_recv_eof(t) \/ gps_loop_err_retry(t) \/ gps_loop_err_stopped(t)
  \/ gps_loop_short_sleep(t) \/ loop_connect_socket(t) \/ loop_connect_tcp_ok(t)
  \/ loop_connect_tcp_fail(t) \/ loop_connect_send_ok(t) \/ loop_connect_send_fail(t)
  \/ gps_loop_long_sleep(t)

LoopData(t) ==
  \/ gps_loop_recv_data(t) \/ gps_loop_split_done(t) \/ gps_loop_split_line(t)
  \/ gps_loop_apply(t) \/ gps_loop_apply_raise(t)

Next ==
  \/ \E c \in Callers : CallerStep(c)
  \/ \E t \in Threads : LoopControl(t) \/ LoopData(t)

Spec == Init /\ [][Next]_vars

\* The same client while the daemon delivers two velocity reports, one per read.
InitPair ==
  /\ InitClient
  /\ budget = MaxCalls
  /\ orig = << Line("A"), Line("C") >>
  /\ wire = orig
  /\ Subscribed /\ NoModule

SpecPair == InitPair /\ [][Next]_vars

\* The calls and the loop's control flow alone: the daemon delivers nothing.
InitLife ==
  /\ InitClient
  /\ budget = MaxLifeCalls
  /\ orig = << >>
  /\ wire = orig
  /\ Subscribed /\ NoModule

NextLife ==
  \/ \E c \in Callers : CallerStep(c)
  \/ \E t \in Threads : LoopControl(t)

SpecLife == InitLife /\ [][NextLife]_vars

\* One caller that makes its start_streaming and stop_streaming calls one after the
\* other, while the daemon delivers a position and velocity report and a satellite
\* report; the peer may close the connection at any time.
InitSession ==
  /\ InitClient
  /\ budget = MaxLifeCalls
  /\ orig = << Line("A"), Line("S") >>
  /\ wire = orig
  /\ Subscribed /\ NoModule

SessionCall(c) ==
  \/ start_streaming_call(c) \/ start_streaming_already(c)
  \/ start_streaming_not_running(c) \/ start_streaming_is_connected(c)
  \/ start_streaming_connect(c) \/ start_streaming_set_running(c)
  \/ start_streaming_thread(c)
  \/ stop_streaming_call(c) \/ stop_streaming_joined(c) \/ stop_streaming_join_timeout(c)
  \/ caller_connect_socket(c) \/ caller_connect_tcp_ok(c) \/ caller_connect_tcp_fail(c)
  \/ caller_connect_send_ok(c) \/ caller_connect_send_fail(c)
  \/ caller_disconnect_flag(c) \/ caller_disconnect_close(c) \/ caller_disconnect_skip(c)
  \/ caller_disconnect_none(c)

SessionData(t) ==
  \/ gps_loop_recv_data(t) \/ gps_loop_split_done(t) \/ gps_loop_split_line(t)
  \/ gps_loop_apply(t)

NextSession ==
  \/ SessionCall("c1")
  \/ \E t \in Threads : LoopControl(t) \/ SessionData(t)

SpecSession == InitSession /\ [][NextSession]_vars

\* A caller inside a call goes on; whether it makes another call is up to it.
CallerProgress(c) ==
  \/ start_streaming_already(c)
  \/ start_streaming_not_running(c) \/ start_streaming_is_connected(c)
  \/ start_streaming_connect(c) \/ start_streaming_set_running(c)
  \/ start_streaming_thread(c)
  \/ stop_streaming_joined(c) \/ stop_streaming_join_timeout(c)
  \/ caller_connect_socket(c) \/ caller_connect_tcp_ok(c) \/ caller_connect_tcp_fail(c)
  \/ caller_connect_send_ok(c) \/ caller_connect_send_fail(c)
  \/ caller_disconnect_flag(c) \/ caller_disconnect_close(c) \/ caller_disconnect_skip(c)
  \/ caller_disconnect_none(c)

\* Threads are scheduled fairly: every thread that can take a step eventually does.
Fairness ==
  /\ \A c \in Callers : WF_vars(CallerProgress(c))
  /\ \A t \in Threads : WF_vars(LoopControl(t))

SpecLifeFair == SpecLife /\ Fairness

(***************************************************************************)
(* The buffering specification: a streaming client (start_streaming has    *)
(* returned True) whose daemon stays reachable reads a byte stream of      *)
(* complete lines that arrives split over several reads.                   *)
(***************************************************************************)
RECURSIVE Flatten(_)
Flatten(cs) == IF cs = << >> THEN << >> ELSE Head(cs) \o Flatten(Tail(cs))

\* The lines a stream is made of: a position and velocity report, a position report
\* with a non-ASCII character in a member the client does not read, a satellite
\* report, and a line that is not JSON.
LineCatalog == { Line("A"), <<"{", "B", "c3", "a9", "}", "nl">>, Line("S"), <<"V", "nl">> }

Streams == { Flatten(ls) : ls \in UNION { [1..n -> LineCatalog] : n \in 1..MaxLines } }

SetMin(S) == CHOOSE m \in S : \A x \in S : m <= x

\* The byte sequence bs cut after the positions in C.
RECURSIVE Pieces(_, _)
Pieces(bs, C) ==
  IF C = {} THEN << bs >>
  ELSE LET m == SetMin(C) IN
         << SubSeq(bs, 1, m) >> \o Pieces(SubSeq(bs, m + 1, Len(bs)), {c - m : c \in C \ {m}})

Splits(bs) ==
  { Pieces(bs, C) : C \in {D \in SUBSET (1..(Len(bs) - 1)) : Cardinality(D) < MaxChunks} }

InitBuf ==
  /\ socket = "up" /\ connected = TRUE /\ running = TRUE /\ thread = 1
  /\ dropped = FALSE
  /\ cache = InitCache
  /\ lpc = [t \in Threads |-> IF t = 1 THEN "top" ELSE "unborn"]
  /\ buf = [t \in Threads |-> << >>]
  /\ pend = [t \in Threads |-> << >>]
  /\ cpc = [c \in Callers |-> "idle"]
  /\ cop = [c \in Callers |-> "none"]
  /\ budget = 0
  /\ startRes = "ok"
  /\ taint = [c \in Callers |-> FALSE]
  /\ stopClean = FALSE /\ apiUsed = FALSE
  /\ stopped = [t \in Threads |-> FALSE]
  /\ conns = "one" /\ reconn = FALSE /\ raised = FALSE
  /\ lastDecoded = InitCache
  /\ cacheHist = [s \in Slots |-> << >>]
  /\ delivered = [s \in Slots |-> << >>]
  /\ held = [s \in Slots |-> FALSE]
  /\ got = Unread
  /\ msgdata = NoData
  /\ \E bs \in Streams : orig \in Splits(bs)
  /\ wire = orig
  /\ Subscribed /\ NoModule

BufStep(t) ==
  \/ gps_loop_top(t) \/ gps_loop_has_socket(t)
  \/ gps_loop_recv_data(t) \/ gps_loop_recv_undecodable(t) \/ gps_loop_recv_timeout(t)
  \/ gps_loop_err_retry(t) \/ gps_loop_short_sleep(t)
  \/ loop_connect_socket(t) \/ loop_connect_tcp_ok(t) \/ loop_connect_send_ok(t)
  \/ gps_loop_split_done(t) \/ gps_loop_split_line(t) \/ gps_loop_apply(t)

NextBuf == \E t \in Threads : BufStep(t)

SpecBuf == InitBuf /\ [][NextBuf]_vars

\* The buffering specification on a connection that the peer may close at any time.
NextCut == \E t \in Threads : BufStep(t) \/ gps_loop_recv_eof(t)

SpecCut == InitBuf /\ [][NextCut]_vars

(***************************************************************************)
(* What one thread makes of a text it holds in one piece: the lines in     *)
(* order, the effects of each line in order.                               *)
(***************************************************************************)
RECURSIVE PlanOf(_)
PlanOf(text) ==
  IF ~HasNewline(text) THEN << >>
  ELSE LET line == SplitLine(text) IN
         (IF Strip(line) /= << >> THEN process_gps_message(line) ELSE << >>)
         \o PlanOf(SplitRest(text))

RECURSIVE RunPlan(_, _)
RunPlan(plan, st) ==
  IF plan = << >> THEN st
  ELSE LET e == Head(plan) IN
         RunPlan(Tail(plan),
           IF e.op = "set"
           THEN [st EXCEPT !.cache[e.slot] = e.val, !.cacheHist[e.slot] = Append(@, e.val)]
           ELSE [st EXCEPT !.delivered[e.slot] =
                   Append(@, IF e.op = "emit_cached" THEN st.cache[e.slot] ELSE e.val)])

OneRead(bytes) ==
  RunPlan(PlanOf(Utf8Decode(bytes)),
          [cache |-> InitCache, cacheHist |-> [s \in Slots |-> << >>],
           delivered |-> [s \in Slots |-> << >>]])

\* The text without its lines that json.loads rejects.
RECURSIVE WellFormedLines(_)
WellFormedLines(text) ==
  IF ~HasNewline(text) THEN text
  ELSE LET line == SplitLine(text) IN
         (IF Strip(line) /= << >> /\ ~JsonValid(line) THEN << >> ELSE line \o <<"nl">>)
         \o WellFormedLines(SplitRest(text))

\* The text has a line that json.loads rejects.
RECURSIVE HasMalformedLine(_)
HasMalformedLine(text) ==
  /\ HasNewline(text)
  /\ \/ Strip(SplitLine(text)) /= << >> /\ ~JsonValid(SplitLine(text))
     \/ HasMalformedLine(SplitRest(text))

\* The chunks received so far.
Received == SubSeq(orig, 1, Len(orig) - Len(wire))

\* No thread is inside the processing of a line.
Quiet == \A t \in Threads : lpc[t] \notin {"split", "apply"}

\* A GPSModule whose user calls start and stop, while the daemon delivers a position
\* and velocity report and a satellite report on every connection.
InitModule ==
  /\ InitClient
  /\ budget = MaxModuleCalls
  /\ orig = << Line("A"), Line("S") >>
  /\ wire = orig
  /\ observers = [s \in Slots |-> 0]
  /\ NoModule

\* The reports of type s in the daemon's stream.
StreamReports(s) == Range(OneRead(Flatten(orig)).cacheHist[s])

ModuleCall(c) ==
  \/ module_start_new(c) \/ module_start_streaming(c) \/ module_start_failed(c)
  \/ module_subscribe(c) \/ module_stop(c) \/ module_stop_none(c)
  \/ start_streaming_not_running(c) \/ start_streaming_connect(c)
  \/ start_streaming_set_running(c) \/ start_streaming_thread(c)
  \/ stop_streaming_joined(c) \/ stop_streaming_join_timeout(c)
  \/ caller_connect_socket(c) \/ caller_connect_tcp_ok(c) \/ caller_connect_tcp_fail(c)
  \/ caller_connect_send_ok(c) \/ caller_connect_send_fail(c)
  \/ caller_disconnect_flag(c) \/ caller_disconnect_close(c) \/ caller_disconnect_skip(c)
  \/ caller_disconnect_none(c)

\* The loop of a client that only GPSModule uses: the client is streaming with a
\* socket or stopped, so the branch of line 131 (no socket) is not taken.
ModuleLoop(t) ==
  \/ gps_loop_top(t) \/ gps_loop_exit(t) \/ gps_loop_has_socket(t)
  \/ gps_loop_recv_timeout(t) \/ gps_loop_recv_error(t)
  \/ gps_loop_recv_eof(t) \/ gps_loop_err_retry(t) \/ gps_loop_err_stopped(t)
  \/ gps_loop_short_sleep(t) \/ loop_connect_socket(t) \/ loop_connect_tcp_ok(t)
  \/ loop_connect_tcp_fail(t) \/ loop_connect_send_ok(t) \/ loop_connect_send_fail(t)
  \/ gps_loop_long_sleep(t)

NextModule ==
  \/ ModuleCall("c1")
  \/ \E t \in Threads : ModuleLoop(t) \/ SessionData(t)
  \/ \E s \in Slots : \E r \in StreamReports(s) : orphan_publish(s, r)

SpecModule == InitModule /\ [][NextModule]_vars

(***************************************************************************)
(* The buffering specification with a subscriber whose callback may not    *)
(* return.  Threads are scheduled fairly, and bytes that have arrived are  *)
(* returned by recv (it times out only while nothing has arrived).         *)
(***************************************************************************)
NextSlow == \E t \in Threads : BufStep(t) \/ gps_loop_apply_block(t)

FairnessSlow ==
  \A t \in Threads :
    /\ WF_vars(BufStep(t))
    /\ SF_vars(gps_loop_recv_data(t) \/ gps_loop_recv_undecodable(t))

SpecSlow == InitBuf /\ [][NextSlow]_vars /\ FairnessSlow

\* Every byte received has been processed: nothing is left to read, no complete line is
\* in a buffer and no effect of a line is pending.
AllProcessed ==
  /\ wire = << >>
  /\ \A t \in Threads : pend[t] = << >> /\ ~HasNewline(buf[t])

(***************************************************************************)
(* The buffering specification with other threads that call get_latest_*,  *)
(* and with subscribers that modify the dicts they are passed.             *)
(***************************************************************************)
NextRead ==
  \/ \E t \in Threads : BufStep(t)
  \/ \E s \in Slots : get_latest(s)

SpecRead == InitBuf /\ [][NextRead]_vars

NextAlias ==
  \/ NextRead
  \/ \E s \in Slots : subscriber_mutates(s)

SpecAlias == InitBuf /\ [][NextAlias]_vars

\* The value the loop stored last in slot s.
Stored(s) == IF cacheHist[s] = << >> THEN InitCache[s] ELSE cacheHist[s][Len(cacheHist[s])]

(***************************************************************************)
(* The decoding specification: a streaming client processes one message,   *)
(* an object with any combination of the members below.                    *)
(***************************************************************************)
TpvInputs ==
  { Dict("TPV", mode, lat, lon, alt, speed, track, climb, << >>, Missing, Missing,
         Missing) :
      mode \in {Missing, Num(1), Num(2), Num(3), Str}, lat \in {Missing, Num(0), Num(1)},
      lon \in {Missing, Num(2)}, alt \in {Missing, Num(3)},
      speed \in {Missing, Num(0), Num(4), Str}, track \in {Missing, Num(5)},
      climb \in {Missing, Num(6)} }

\* a SKY object: the satellites list (the truth of each entry's "used", the
\* empty list when the member is absent) and the three dilution members
SkyInputs ==
  { Dict("SKY", Missing, Missing, Missing, Missing, Missing, Missing, Missing, sats, hdop,
         vdop, pdop) :
      sats \in {<< >>, <<FALSE>>, <<TRUE, FALSE>>, <<TRUE, TRUE, FALSE>>},
      hdop \in {Missing, Num(1)}, vdop \in {Missing, Num(2)}, pdop \in {Missing, Num(3)} }

\* an object of another class, or without a class member (data.get("class", "")),
\* that carries the members of a TPV and of a SKY object
OtherInputs ==
  { Dict(class, Num(3), Num(1), Num(2), Num(3), Num(4), Missing, Missing, <<TRUE>>, Num(1),
         Missing, Missing) : class \in {"VERSION", ""} }

MsgInputs == TpvInputs \cup SkyInputs \cup OtherInputs

\* what the receive buffer holds behind the line being processed
RestInputs == {<< >>, <<"{", "A">>}

InitDecode ==
  /\ socket = "up" /\ connected = TRUE /\ running = TRUE /\ thread = 1
  /\ dropped = FALSE
  /\ cache = InitCache
  /\ lpc = [t \in Threads |-> IF t = 1 THEN "msg" ELSE "unborn"]
  /\ \E rest \in RestInputs : buf = [t \in Threads |-> IF t = 1 THEN rest ELSE << >>]
  /\ pend = [t \in Threads |-> << >>]
  /\ cpc = [c \in Callers |-> "idle"]
  /\ cop = [c \in Callers |-> "none"]
  /\ budget = 0
  /\ startRes = "ok"
  /\ taint = [c \in Callers |-> FALSE]
  /\ stopClean = FALSE /\ apiUsed = FALSE
  /\ stopped = [t \in Threads |-> FALSE]
  /\ conns = "one" /\ reconn = FALSE /\ raised = FALSE
  /\ lastDecoded = InitCache
  /\ cacheHist = [s \in Slots |-> << >>]
  /\ delivered = [s \in Slots |-> << >>]
  /\ held = [s \in Slots |-> FALSE]
  /\ got = Unread
  /\ msgdata \in MsgInputs
  /\ orig = << >>
  /\ wire = orig
  /\ Subscribed /\ NoModule

DecodeStep(t) ==
  \/ gps_loop_process_message(t) \/ gps_loop_apply(t) \/ gps_loop_split_done(t)
  \/ gps_loop_top(t) \/ gps_loop_has_socket(t) \/ gps_loop_recv_timeout(t)

NextDecode == \E t \in Threads : DecodeStep(t)

SpecDecode == InitDecode /\ [][NextDecode]_vars

\* The message has been processed.
Decoded == \A t \in Threads : lpc[t] \notin {"msg", "apply"}

(***************************************************************************)
(* Claims.                                                                 *)
(***************************************************************************)
AllIdle == \A c \in Callers : cpc[c] = "idle"
Usable == socket \in {"conn", "up"}

\* C1: at every moment at most one thread is executing _gps_loop, whatever the
\* sequence or interleaving of start_streaming and stop_streaming calls.
C1_AtMostOneLoop == Cardinality(AliveThreads) <= 1

\* The client state a call can change, and the loop threads.
C2_Untouched == UNCHANGED <<socket, connected, running, thread, dropped, conns, cache, lpc,
                            buf, pend, wire>>

\* C2 as stated: a start_streaming call that follows a start_streaming call, with no
\* stop_streaming called in between, returns True at its first statement: no connect,
\* no thread, no change of the client's state.
C2_SecondStartNoEffect ==
  [][\A c \in Callers :
       (cpc[c] = "s_chk" /\ cpc'[c] /= "s_chk" /\ startRes /= "none")
         => (cpc'[c] = "idle" /\ startRes' = "ok" /\ C2_Untouched)]_vars

\* C2 amended: a start_streaming call that follows a start_streaming call that returned
\* True, with no stop_streaming called in between, returns True at its first statement:
\* no connect, no thread, no change of the client's state.
C2_SecondStartAfterSuccess ==
  [][\A c \in Callers :
       (cpc[c] = "s_chk" /\ cpc'[c] /= "s_chk" /\ startRes = "ok")
         => (cpc'[c] = "idle" /\ startRes' = "ok" /\ C2_Untouched)]_vars

\* A second start_streaming call is at its first statement after one that returned
\* True and launched the loop; no other call is in progress.
C2_Witness ==
  /\ startRes = "ok" /\ running /\ Cardinality(AliveThreads) = 1
  /\ \E c \in Callers : cpc[c] = "s_chk" /\ \A d \in Callers \ {c} : cpc[d] = "idle"

\* C3: when only start_streaming and stop_streaming were called, no call is in progress
\* and no loop thread is on its way out, no loop thread runs with self.socket None.
C3_NoLoopWithoutSocket ==
  (AllIdle /\ ~apiUsed /\ (\A t \in Threads : Alive(t) => running))
    => (\A t \in Threads : Alive(t) => socket /= "none")

\* C4: once stop_streaming has returned, and until connect or start_streaming is
\* called, the client holds no open socket and is not connected.
C4_StoppedStaysDisconnected == stopClean => (socket \notin OpenSock /\ ~connected)

\* C5: a loop thread that was running when stop_streaming was called eventually ends.
C5_StoppedLoopEnds == \A t \in Threads : stopped[t] ~> (lpc[t] = "done")

C7_KeepsReconnecting ==
  (running /\ AliveThreads /= {} /\ ~Usable)
    ~> (~running \/ Usable \/ \E t \in Threads : lpc[t] = "k_conn")

\* C8: once a byte stream split over several reads is consumed, the reports delivered
\* and the cache are those of one read of the same bytes, and no reconnect happened.
C8_SplitInvariant ==
  (wire = << >> /\ lpc[1] = "recv")
    => /\ ~reconn
       /\ delivered = OneRead(Flatten(orig)).delivered
       /\ cacheHist = OneRead(Flatten(orig)).cacheHist
       /\ cache = OneRead(Flatten(orig)).cache

\* C9: on one connection (and with no subscriber raising), whenever no line is being
\* processed, the reports delivered and the values the cache slots took are, per type,
\* the reports of the lines received, in the order the bytes were received.
C9_OrderPreserved ==
  (Quiet /\ conns = "one" /\ ~raised)
    => \A s \in Slots :
         /\ delivered[s] = OneRead(Flatten(Received)).delivered[s]
         /\ cacheHist[s] = OneRead(Flatten(Received)).cacheHist[s]

\* C10: a cache slot that took a value is never empty again, and whenever no line is
\* being processed (and no subscriber raised) it holds the report of its type that was
\* decoded last.
C10_CacheMostRecent ==
  \A s \in Slots :
    /\ cacheHist[s] /= << >> => cache[s] /= InitCache[s]
    /\ (Quiet /\ ~raised) => cache[s] = lastDecoded[s]

\* The places of a loop thread between a zero-length read and the end of the reconnect.
OutagePcs == {"eof_sleep", "err_sleep", "k_new", "k_conn", "k_send", "long_sleep"}

\* C11: a zero-length read sends the loop thread into the reconnect sequence and not to
\* its end, and no step of the thread from the zero-length read to the end of the
\* reconnect (the delays, a failed connect, a successful connect) changes a cache slot.
C11_OutageKeepsCache ==
  [][\A t \in Threads :
       /\ (lpc[t] = "recv" /\ lpc'[t] = "eof_sleep") => (cache' = cache /\ reconn')
       /\ (lpc[t] \in OutagePcs /\ lpc'[t] /= lpc[t])
            => (cache' = cache /\ lpc'[t] \in OutagePcs \cup {"top"})]_vars

\* The reports were cached on the first connection, then the peer closed and the
\* reconnect failed: the loop is in its 5.0 s delay, the cache holds the reports.
C11_Witness ==
  /\ reconn /\ running /\ conns = "one" /\ wire = << >>
  /\ AliveThreads = {1} /\ lpc[1] = "long_sleep"
  /\ cache["loc"] /= NoneVal /\ cache["vel"] /= EmptyDict

\* C12: when a start_streaming call has returned True (and no call is in progress),
\* exactly one loop thread is running.
C12_SuccessMeansOneLoop ==
  (AllIdle /\ startRes = "ok") => Cardinality(AliveThreads) = 1

\* The statements of connect after the socket's creation; the statements of disconnect
\* after its first.
InConnect(pc) == pc \in {"k_conn", "k_send"}
InDisconnect(pc) == pc \in {"d_close", "d_none"}

\* C13: connected becomes true only in the step that sent the watch command on a
\* connected socket; a connect that fails sets connected false and returns False to its
\* caller (start_streaming returns False, the loop goes to its 5.0 s delay), and no
\* connect makes a second attempt.
C13_ConnectOutcome ==
  [][/\ (~connected /\ connected') => (socket \in {"conn", "up"} /\ socket' = "up")
     /\ \A t \in Threads :
          /\ (InConnect(lpc[t]) /\ lpc'[t] = "long_sleep") => ~connected'
          /\ (InConnect(lpc[t]) /\ lpc'[t] = "top") => (connected' /\ socket' = "up")
          /\ InConnect(lpc[t]) => lpc'[t] /= "k_new"
     /\ \A c \in Callers :
          /\ (InConnect(cpc[c]) /\ cop[c] = "start" /\ cpc'[c] = "idle") => ~connected'
          /\ (InConnect(cpc[c]) /\ cpc'[c] = "s_run") => (connected' /\ socket' = "up")
          /\ InConnect(cpc[c]) => cpc'[c] /= "k_new"]_vars

\* A reconnect of the loop failed while connected was still true from the connection
\* that was lost: connected is false now and the loop is in its 5.0 s delay.
C13_Witness ==
  /\ reconn /\ ~connected /\ conns = "one" /\ socket = "fresh"
  /\ \E t \in Threads : lpc[t] = "long_sleep"

\* A step of a stop_streaming call of caller c (its first statement included).
StopStep(c) == (cop[c] = "stop" \/ cop'[c] = "stop") /\ cpc'[c] /= cpc[c]

\* C14 as stated: a step of stop_streaming taken while no session is active (_running
\* false, no loop thread) and with no other call in progress since the stop_streaming
\* call began leaves _running, connected, the socket, _thread and the cache as they were.
C14_StopIsNoOp ==
  [][\A c \in Callers :
       (StopStep(c) /\ ~running /\ AliveThreads = {}
          /\ ~taint'[c] /\ \A d \in Callers \ {c} : cpc[d] = "idle")
         => UNCHANGED <<socket, connected, running, thread, dropped, cache, lpc>>]_vars

\* C14 amended: a step of stop_streaming taken while no session is active and the client
\* holds no socket and is not connected (a new client, or one whose last stop_streaming
\* or disconnect has completed) leaves _running, connected, the socket, _thread and the
\* cache as they were.
C14_StopIsNoOpWithoutSocket ==
  [][\A c \in Callers :
       (StopStep(c) /\ ~running /\ AliveThreads = {} /\ socket = "none" /\ ~connected)
         => UNCHANGED <<socket, connected, running, thread, dropped, cache, lpc>>]_vars

\* A second stop_streaming, after one that returned and a loop that has ended, is at the
\* test of self.socket in disconnect.
C14_Witness ==
  /\ stopClean /\ ~running /\ socket = "none" /\ ~connected
  /\ thread /= 0 /\ AliveThreads = {}
  /\ \E c \in Callers : /\ cop[c] = "stop" /\ cpc[c] = "d_close"
                         /\ \A d \in Callers \ {c} : cpc[d] = "idle"

\* The number of threads inside connect.
Connecting ==
  Cardinality({c \in Callers : InConnect(cpc[c])})
    + Cardinality({t \in Threads : InConnect(lpc[t])})

\* C18: while a thread is inside connect no other thread is inside connect or inside
\* disconnect (here: when only start_streaming and stop_streaming are called).
C18_ConnectDisconnectExclusive ==
  (~apiUsed /\ Connecting > 0)
    => /\ Connecting = 1
       /\ \A c \in Callers : ~InDisconnect(cpc[c])

\* C15: whenever no line is being processed, the subscribers of each report type have
\* been called once for each report of the type that the lines received contain.
C15_OncePerReport ==
  Quiet => \A s \in Slots :
             Len(delivered[s]) = Len(OneRead(Flatten(Received)).delivered[s])

\* C16: when a subscriber's callback does not return, the remaining reports of the line
\* and the reports of the later lines are still processed eventually.
C16_SlowSubscriberNoStall ==
  (\E t \in Threads : lpc[t] = "in_callback") ~> AllProcessed

\* C17: a get_latest_* call returns the value the loop stored last in the slot, whatever
\* the subscribers did with the values they were passed.
C17_LatestIsSnapshot ==
  [][got' /= got => \E s \in Slots : got' = Stored(s)]_vars

\* C19: the value a get_latest_* call returned is one whole value of a slot: the initial
\* one or one the loop stored, never a mixture of fields of two.
C19_NoTornRead ==
  got /= Unread => \E s \in Slots : got = InitCache[s] \/ got \in Range(cacheHist[s])

\* A get_latest_location call has returned the second of two locations while the loop
\* is still processing the line that carried it.
C19_Witness ==
  /\ Len(cacheHist["loc"]) = 2 /\ cacheHist["loc"][1] /= cacheHist["loc"][2]
  /\ got = cacheHist["loc"][2] /\ lpc[1] = "apply"

\* C20: once a TPV message with mode >= 2 and both lat and lon is processed, one location
\* was delivered and is cached; its lat and lon are those of the message, and it has an
\* altitude if and only if mode >= 3 and the message has alt (then the message's alt).
C20_PositionDecoded ==
  (/\ Decoded
   /\ msgdata.class = "TPV" /\ IsNum(msgdata.mode) /\ msgdata.mode.v >= 2
   /\ msgdata.lat /= Missing /\ msgdata.lon /= Missing)
    => LET r == cache["loc"] IN
         /\ delivered["loc"] = << r >>
         /\ r.k = "loc" /\ r.lat = msgdata.lat /\ r.lon = msgdata.lon
         /\ r.alt /= Missing <=> (msgdata.mode.v >= 3 /\ msgdata.alt /= Missing)
         /\ r.alt /= Missing => r.alt = msgdata.alt

\* A 2D fix at latitude 0 that carries alt was processed: the location is cached.
C20_Witness ==
  /\ Decoded
  /\ msgdata.mode = Num(2) /\ msgdata.lat = Num(0) /\ msgdata.lon /= Missing
  /\ msgdata.alt /= Missing
  /\ cache["loc"] /= NoneVal

\* C21: once a TPV message whose mode is below 2, or that has no mode, is processed,
\* no report was produced: no cache slot was written and no subscriber was invoked.
C21_NoFixNoReport ==
  (/\ Decoded
   /\ msgdata.class = "TPV"
   /\ msgdata.mode = Missing \/ (IsNum(msgdata.mode) /\ msgdata.mode.v < 2))
    => /\ cache = InitCache
       /\ \A s \in Slots : cacheHist[s] = << >> /\ delivered[s] = << >>

\* A mode 1 message that carries lat, lon and a speed was processed.
C21_Witness ==
  /\ Decoded
  /\ msgdata.class = "TPV" /\ msgdata.mode = Num(1)
  /\ msgdata.lat /= Missing /\ msgdata.lon /= Missing /\ msgdata.speed = Num(4)
  /\ cache = InitCache

\* the message is a TPV object with a fix (mode >= 2)
HasFix == msgdata.class = "TPV" /\ IsNum(msgdata.mode) /\ msgdata.mode.v >= 2

\* C22: for a TPV message with mode >= 2, a velocity report is produced if and only if
\* at least one of speed, track and climb is present, whether or not lat and lon are;
\* each present member is carried as it is and each absent one is 0.0.  The position
\* of the same message is cached and delivered before the velocity is cached.
C22_VelocityDecoded ==
  /\ (Decoded /\ HasFix) =>
       IF msgdata.speed = Missing /\ msgdata.track = Missing /\ msgdata.climb = Missing
       THEN cache["vel"] = EmptyDict /\ delivered["vel"] = << >>
       ELSE LET v == cache["vel"] IN
              /\ delivered["vel"] = << v >>
              /\ v.k = "vel"
              /\ v.speed = (IF msgdata.speed = Missing THEN Num(0) ELSE msgdata.speed)
              /\ v.track = (IF msgdata.track = Missing THEN Num(0) ELSE msgdata.track)
              /\ v.climb = (IF msgdata.climb = Missing THEN Num(0) ELSE msgdata.climb)
  /\ (HasFix /\ msgdata.lat /= Missing /\ msgdata.lon /= Missing /\ cacheHist["vel"] /= << >>)
       => (cacheHist["loc"] /= << >> /\ delivered["loc"] /= << >>)

\* A message with a fix, lat and lon and only a track was processed: both reports
\* were delivered.
C22_Witness ==
  /\ Decoded /\ HasFix
  /\ msgdata.lat /= Missing /\ msgdata.lon /= Missing
  /\ msgdata.speed = Missing /\ msgdata.track = Num(5) /\ msgdata.climb = Missing
  /\ Len(delivered["loc"]) = 1 /\ Len(delivered["vel"]) = 1

\* C23: once a SKY message is processed, one quality report was delivered and is
\* cached; its satellite count is the number of listed satellites (0 without a list),
\* its used count is the number of entries whose "used" is true and never exceeds the
\* satellite count, and hdop, vdop and pdop are carried exactly when present.
C23_QualityDecoded ==
  (Decoded /\ msgdata.class = "SKY")
    => LET q == cache["qual"] IN
         /\ delivered["qual"] = << q >>
         /\ q.k = "qual"
         /\ q.satellites = Len(msgdata.sats)
         /\ q.satellites_used = Cardinality({i \in 1..Len(msgdata.sats) : msgdata.sats[i]})
         /\ q.satellites_used <= q.satellites
         /\ q.hdop = msgdata.hdop /\ q.vdop = msgdata.vdop /\ q.pdop = msgdata.pdop

\* A SKY message with three satellites, two of them used, and only hdop was processed.
C23_Witness ==
  /\ Decoded /\ msgdata.class = "SKY"
  /\ msgdata.sats = <<TRUE, TRUE, FALSE>>
  /\ msgdata.hdop /= Missing /\ msgdata.vdop = Missing /\ msgdata.pdop = Missing
  /\ cache["qual"] /= EmptyDict /\ cache["qual"].satellites_used = 2

\* C25: a member of the wrong type drops only the report derived from it: once a TPV
\* message with a fix, lat and lon and a speed that is not a number is processed, no
\* velocity report was cached or delivered, and the position was.
C25_WrongTypeDropsOneReport ==
  (/\ Decoded /\ HasFix
   /\ msgdata.lat /= Missing /\ msgdata.lon /= Missing
   /\ msgdata.speed = Str)
    => /\ cache["vel"] = EmptyDict /\ delivered["vel"] = << >>
       /\ Len(delivered["loc"]) = 1

\* C26: processing an object whose class is neither TPV nor SKY, or that has no class,
\* produces nothing: the step leaves the cache, the subscribers, the connection state
\* and the rest of the receive buffer as they were, raises nothing, and the loop goes
\* on with the next line.
C26_OtherClassIgnored ==
  [][\A t \in Threads :
       (lpc[t] = "msg" /\ lpc'[t] /= "msg" /\ msgdata.class \notin {"TPV", "SKY"})
         => /\ lpc'[t] = "split" /\ pend'[t] = << >>
            /\ UNCHANGED <<cache, cacheHist, delivered, held, raised, buf>>
            /\ UNCHANGED <<socket, connected, running, thread, conns, reconn>>]_vars

\* An object without a class was processed while a partial line waited in the buffer.
C26_Witness ==
  /\ Decoded
  /\ msgdata.class = "" /\ msgdata.lat /= Missing /\ msgdata.sats /= << >>
  /\ buf[1] /= << >> /\ cache = InitCache

\* C24: a line that is not valid JSON is dropped without effect: once a stream with
\* such a line (and no chunk that fails to decode) is consumed, the loop is running on
\* the same connection without a reconnect, and the reports delivered and the cache are
\* those of the stream without that line.
C24_MalformedLineDropped ==
  (/\ wire = << >> /\ lpc[1] = "recv"
   /\ \A i \in 1..Len(orig) : Utf8Valid(orig[i])
   /\ HasMalformedLine(Utf8Decode(Flatten(orig))))
    => LET ref == RunPlan(PlanOf(WellFormedLines(Utf8Decode(Flatten(orig)))),
                          [cache |-> InitCache, cacheHist |-> [s \in Slots |-> << >>],
                           delivered |-> [s \in Slots |-> << >>]])
       IN /\ ~reconn /\ ~raised /\ conns = "one" /\ Usable /\ connected /\ buf[1] = << >>
          /\ delivered = ref.delivered
          /\ cacheHist = ref.cacheHist
          /\ cache = ref.cache

\* A line that is not JSON followed by a position and velocity report, received in two
\* reads, was consumed: the report is cached.
C24_Witness ==
  /\ wire = << >> /\ lpc[1] = "recv"
  /\ Flatten(orig) = <<"V", "nl">> \o Line("A") /\ Len(orig) = 2
  /\ cache["loc"] /= NoneVal /\ cache["vel"] /= EmptyDict

\* C27: when the read loop (the only loop, no call in progress, no public connect or
\* disconnect used) is about to call connect after a failed or zero-length read, the
\* socket it held has been closed: the client never has two sockets open.
C27_SocketClosedBeforeConnect ==
  \A t \in Threads :
    (lpc[t] = "k_new" /\ AliveThreads = {t} /\ AllIdle /\ ~apiUsed)
      => socket \notin OpenSock

\* C28: the reconnect sequence has a fixed order.  A read error seen while streaming and
\* a zero-length read are followed by the short delay, the short delay by one connect
\* attempt, the attempt by the long delay if and only if it failed, and then by the
\* start of the next iteration; a read is only ever started from the start of an
\* iteration, so none happens between the failure and the connect attempt.
C28_ReconnectOrder ==
  [][\A t \in Threads :
       lpc'[t] /= lpc[t] =>
         /\ (lpc[t] = "recv" /\ lpc'[t] \in {"err_chk", "eof_sleep"})
              => UNCHANGED <<connected, conns, dropped>>
         /\ (lpc[t] = "err_chk" /\ running) => lpc'[t] = "err_sleep"
         /\ lpc[t] \in {"err_sleep", "eof_sleep"}
              => (lpc'[t] = "k_new" /\ UNCHANGED <<socket, connected, conns>>)
         /\ lpc[t] = "k_new" => lpc'[t] = "k_conn"
         /\ lpc[t] = "k_conn" => lpc'[t] \in {"k_send", "long_sleep"}
         /\ lpc[t] = "k_send" => lpc'[t] \in {"top", "long_sleep"}
         /\ (lpc[t] \in {"k_conn", "k_send"} /\ lpc'[t] = "long_sleep") => ~connected'
         /\ (lpc[t] = "k_send" /\ lpc'[t] = "top") => (connected' /\ socket' = "up")
         /\ lpc'[t] = "long_sleep" => lpc[t] \in {"k_conn", "k_send"}
         /\ lpc[t] = "long_sleep" => (lpc'[t] = "top" /\ UNCHANGED <<socket, connected, conns>>)
         /\ lpc'[t] = "k_conn" => lpc[t] = "k_new"
         /\ lpc'[t] = "k_new" => lpc[t] \in {"err_sleep", "eof_sleep"}
         /\ lpc'[t] = "recv" => lpc[t] = "chk"
         /\ lpc'[t] = "chk" => lpc[t] = "top"]_vars

\* The only loop has reconnected after a zero-length read and is at the start of its
\* next iteration, while no call is in progress.
C28_Witness ==
  /\ AliveThreads = {1} /\ AllIdle /\ ~apiUsed
  /\ reconn /\ conns = "many" /\ connected /\ socket = "up" /\ running
  /\ lpc[1] = "top"

\* C30: a read timeout is not a failure.  A read that ends without data, without an
\* error and without the end of the stream leaves the socket, the connection state, the
\* receive buffer and the cache unchanged, attempts no connect and takes no delay: the
\* loop is at the start of its next iteration, where the stop signal is tested.
C30_TimeoutIsNotFailure ==
  [][\A t \in Threads :
       (lpc[t] = "recv" /\ lpc'[t] \notin {"recv", "split", "err_chk", "eof_sleep"})
         => /\ lpc'[t] = "top"
            /\ UNCHANGED <<socket, connected, running, thread, dropped, conns, reconn>>
            /\ UNCHANGED <<buf, pend, wire, cache, cacheHist, delivered>>]_vars

\* After a read that timed out the loop is at the start of an iteration with a partial
\* line in its buffer, a report cached, more bytes to come and no reconnect made.
C30_Witness ==
  /\ lpc[1] = "top" /\ running /\ socket = "up" /\ connected
  /\ buf[1] /= << >> /\ wire /= << >> /\ cache["loc"] /= NoneVal
  /\ ~reconn /\ conns = "one"

\* C29: the cache update precedes the fan-out: at the moment a subscriber is invoked
\* with a report, the cache slot of its type holds that report (so that get_latest_*
\* called from the callback returns the report being delivered).
C29_CachedBeforeDelivered ==
  [][\A s \in Slots :
       delivered'[s] /= delivered[s]
         => cache[s] = delivered'[s][Len(delivered'[s])]]_vars

\* C31: the watch command is sent once per connection, right after the TCP connect and
\* before any byte is read from the connection: a connect sends it on a socket that is
\* connected and has not been sent one, a loop started after the last stop_streaming
\* reads bytes only from a socket that has been sent one, and start_streaming on a
\* connected client does not call connect.
C31_WatchOncePerConnection ==
  [][/\ \A c \in Callers :
          /\ (cpc[c] = "k_send" /\ cpc'[c] /= "k_send" /\ connected') => socket = "conn"
          /\ (cpc[c] = "s_conn" /\ connected) => cpc'[c] \in {"s_conn", "s_run"}
     /\ \A t \in Threads :
          /\ (lpc[t] = "k_send" /\ lpc'[t] = "top") => socket = "conn"
          /\ (lpc[t] = "recv" /\ lpc'[t] = "split" /\ ~stopped[t]) => socket = "up"]_vars

\* C32: a line handed to the decoder is made of bytes of one connection: when the loop
\* has established the connection that replaces a lost one, nothing of the lost
\* connection's bytes is left in its receive buffer.
C32_NoLineAcrossConnections ==
  \A t \in Threads : (lpc[t] = "k_send" /\ reconn) => buf[t] = << >>

\* C33: a subscriber that raises does not cost a report that is independent of it:
\* whenever no line is being processed, a velocity report that was decoded (also from a
\* line whose position subscriber raised) is cached and was delivered.
C33_RaiseKeepsOtherReport ==
  (Quiet /\ lastDecoded["vel"] /= EmptyDict)
    => (cache["vel"] = lastDecoded["vel"] /\ delivered["vel"] /= << >>)

\* C34: once stop_streaming has returned (and until the next start_streaming or
\* connect call), no cache slot is written and no subscriber is invoked.
C34_SilentAfterStop ==
  [][stopClean => UNCHANGED <<cache, cacheHist, delivered>>]_vars

\* C35: whenever no call is in progress and no loop thread is inside connect,
\* connected and the socket agree: a disconnected client holds no socket, and a
\* connected client holds a socket that was sent the watch command and on which the
\* loop has seen no failure and no close.
C35_FlagAgreesWithSocket ==
  (AllIdle /\ \A t \in Threads : lpc[t] \notin {"k_new", "k_conn", "k_send"})
    => /\ ~connected => socket = "none"
       /\ connected => socket = "up"

\* the on_next call of thread t in this step
OnNext(t) ==
  /\ lpc[t] = "apply" /\ pend[t] /= << >> /\ Head(pend[t]).op /= "set"
  /\ pend'[t] /= pend[t]

\* C36: subscriptions outlive connections and sessions: no step of start_streaming,
\* stop_streaming or the read loop (its reconnects included) changes the callbacks
\* subscribed to a stream, and every on_next call of the loop, whatever connection and
\* session it is made in, hands its report to the subscribed callback.
C36_SubscriptionsPersist ==
  [][/\ observers' = observers
     /\ \A t \in Threads :
          OnNext(t) =>
            LET s == Head(pend[t]).slot IN
              observers[s] > 0 => Len(delivered'[s]) = Len(delivered[s]) + 1]_vars

\* The session was stopped and started again and the second session's connection was
\* lost and replaced: the callbacks subscribed before the first start are subscribed,
\* and the reports were delivered.
C36_Witness ==
  /\ stopped[1] /\ lpc[1] = "done" /\ thread = 2 /\ Alive(2) /\ startRes = "ok"
  /\ reconn /\ conns = "many"
  /\ Subscribed
  /\ delivered["loc"] /= << >> /\ delivered["qual"] /= << >>

\* C37: in a session started through GPSModule.start, whenever start has returned and
\* the read loop is not processing a line, the module's latest value of each type of
\* which the connection has decoded a report is the connection's cached value.
C37_ModuleSeesEveryReport ==
  (/\ connection = "cur" /\ mpc = "idle" /\ cpc["c1"] = "idle" /\ startRes = "ok"
   /\ orphans = 0 /\ Quiet)
    => \A s \in Slots : cacheHist[s] /= << >> => ModuleLatest(s) = cache[s]

\* C38: under any sequence of GPSModule.start and GPSModule.stop calls at most one
\* read loop of the module's connections is alive.
C38_OneLoopPerModule ==
  Cardinality(AliveThreads) + orphans <= 1

=============================================================================
